---- MODULE Spec2Model ----
(***************************************************************************)
(* Smart-Health-Monitor: live and batch ingestion of pulse / SpO2          *)
(* readings (app_v0.py, import_sp02_csv.py) and the daily score engine.    *)
(*                                                                         *)
(* Conventions of the model                                                *)
(*   - a Python float is held in tenths (71.6 is 716); every float the     *)
(*     scoring code computes from the values reachable here is exact or    *)
(*     far from an integer boundary, so integer arithmetic on tenths and   *)
(*     hundredths gives the value the interpreter gives;                   *)
(*   - a point in time is a number of half-hour ticks; a stored            *)
(*     recorded_at is the wall clock value SQLite keeps (tzinfo dropped);  *)
(*   - Python None is the option value None, a present value x is Some(x). *)
(***************************************************************************)
EXTENDS Integers, Sequences, FiniteSets, TLC

VARIABLES
    readings,     \* table pulse_sp02_data, in id order (id = index)
    users,        \* table user_auth, in id order
    scores,       \* table health_scores, in id order
    req,          \* the request / call being served last
    resp,         \* what that call returned
    now,          \* the current instant, UTC, in ticks
    hostOffset,   \* UTC offset (ticks) of the local timezone of the host
    fnArgs,       \* arguments handed to a scoring helper
    fnRes,        \* the helper's results, one per argument
    fnPc,         \* which helper was last applied
    run,          \* the batch run in progress: its rows, position and session
    calls         \* the live calls in flight, one record per call

vars == <<readings, users, scores, req, resp, now, hostOffset, fnArgs, fnRes, fnPc, run, calls>>

(***************************************************************************)
(* Bounds of the model.                                                    *)
(***************************************************************************)
MaxReadings == 1
MaxScores == 1
ArgSpan == 12
MaxRepeats == 2
MaxStored == 3
MaxCalls == 2
MaxTicks == 12

(***************************************************************************)
(* Option values and Python number conversions.                            *)
(***************************************************************************)
None == [some |-> FALSE, v |-> 0]
Some(x) == [some |-> TRUE, v |-> x]

Abs(x) == IF x < 0 THEN 0 - x ELSE x

\* int(a / b) for b > 0: truncation toward zero
TruncDiv(a, b) == IF a >= 0 THEN a \div b ELSE 0 - ((0 - a) \div b)

\* round(x) of a float held in tenths: nearest integer, ties to even
PyRound(t) ==
    LET q == t \div 10
        r == t % 10
    IN  IF r < 5 THEN q
        ELSE IF r > 5 THEN q + 1
        ELSE IF q % 2 = 0 THEN q ELSE q + 1

(***************************************************************************)
(* JSON values of a payload field: [k, v].                                 *)
(*   absent  the key is missing          null   the key holds null         *)
(*   num     a number, v in tenths       str    a decimal literal string   *)
(*   bool    true / false (v = 1 / 0)    bad    any other non-empty string *)
(*   empty   the empty string                                              *)
(***************************************************************************)
JAbsent == [k |-> "absent", v |-> 0]
JNull == [k |-> "null", v |-> 0]
JNum(t) == [k |-> "num", v |-> t]
JStr(t) == [k |-> "str", v |-> t]
JBool(b) == [k |-> "bool", v |-> IF b THEN 1 ELSE 0]
JBad == [k |-> "bad", v |-> 0]
JEmpty == [k |-> "empty", v |-> 0]

\* payload.get(key) is None
IsNone(x) == x.k \in {"absent", "null"}

\* key in payload
InPayload(x) == x.k # "absent"

\* bool(payload.get(key))
Truthy(x) ==
    CASE x.k \in {"absent", "null", "empty"} -> FALSE
      [] x.k \in {"num", "bool"} -> x.v # 0
      [] OTHER -> TRUE

\* float(x): None when it raises
PyFloat(x) ==
    CASE x.k = "num" -> Some(x.v)
      [] x.k = "str" -> Some(x.v)
      [] x.k = "bool" -> Some(x.v * 10)
      [] OTHER -> None

\* int(x): None when it raises; a literal with a fraction part is rejected
PyInt(x) ==
    CASE x.k = "num" -> Some(TruncDiv(x.v, 10))
      [] x.k = "str" -> IF x.v % 10 = 0 THEN Some(x.v \div 10) ELSE None
      [] x.k = "bool" -> Some(x.v)
      [] OTHER -> None

(***************************************************************************)
(* Time.  One tick is half an hour.                                        *)
(***************************************************************************)
TicksPerHour == 1 + 1
TicksPerDay == 24 * TicksPerHour

\* IST = timezone(timedelta(hours=5, minutes=30))
IST == 5 * TicksPerHour + 1

DayOf(t) == t \div TicksPerDay
DayStart(d) == d * TicksPerDay

(***************************************************************************)
(* Scoring helpers.                                                        *)
(***************************************************************************)
Max(a, b) == IF a >= b THEN a ELSE b

\* variant: the sign of the penalty below 90 is slipped
spo2_to_score_SignSlip(spo2) ==
    IF ~spo2.some THEN 0
    ELSE IF spo2.v >= 98 THEN 100
    ELSE IF spo2.v >= 95 THEN 90 + (spo2.v - 95) * 2
    ELSE IF spo2.v >= 90 THEN TruncDiv(6000 + (spo2.v - 90) * 725, 100)
    ELSE Max(0, 30 + (90 - spo2.v) * 5)

\* variant: the top branch starts above 98
spo2_to_score_Strict98(spo2) ==
    IF ~spo2.some THEN 0
    ELSE IF spo2.v > 98 THEN 100
    ELSE IF spo2.v >= 95 THEN 90 + (spo2.v - 95) * 2
    ELSE IF spo2.v >= 90 THEN TruncDiv(6000 + (spo2.v - 90) * 725, 100)
    ELSE Max(0, 30 - (90 - spo2.v) * 5)

spo2_to_score(spo2) ==
    IF ~spo2.some THEN 0
    ELSE IF spo2.v >= 98 THEN 100
    ELSE IF spo2.v >= 95 THEN 90 + (spo2.v - 95) * 2
    ELSE IF spo2.v >= 90 THEN TruncDiv(6000 + (spo2.v - 90) * 725, 100)
    ELSE Max(0, 30 - (90 - spo2.v) * 5)

\* variant: the ideal band excludes 60
resting_hr_score_Strict60(hr) ==
    IF ~hr.some THEN 0
    ELSE IF 60 < hr.v /\ hr.v <= 80 THEN 100
    ELSE IF (50 <= hr.v /\ hr.v < 60) \/ (81 <= hr.v /\ hr.v <= 90) THEN 70
    ELSE IF (45 <= hr.v /\ hr.v < 50) \/ (91 <= hr.v /\ hr.v <= 100) THEN 50
    ELSE 20

resting_hr_score(hr) ==
    IF ~hr.some THEN 0
    ELSE IF 60 <= hr.v /\ hr.v <= 80 THEN 100
    ELSE IF (50 <= hr.v /\ hr.v < 60) \/ (81 <= hr.v /\ hr.v <= 90) THEN 70
    ELSE IF (45 <= hr.v /\ hr.v < 50) \/ (91 <= hr.v /\ hr.v <= 100) THEN 50
    ELSE 20

\* variant: the ideal band starts above 7 hours
sleep_to_score_Strict7(minutes) ==
    IF 7 * 60 < minutes /\ minutes <= 9 * 60 THEN 100
    ELSE IF 6 * 60 <= minutes /\ minutes < 7 * 60 THEN 80
    ELSE IF 5 * 60 <= minutes /\ minutes < 6 * 60 THEN 60
    ELSE IF minutes < 5 * 60 THEN 30
    ELSE 80

\* hours = minutes / 60.0 is handed over as the number of minutes
sleep_to_score(minutes) ==
    IF 7 * 60 <= minutes /\ minutes <= 9 * 60 THEN 100
    ELSE IF 6 * 60 <= minutes /\ minutes < 7 * 60 THEN 80
    ELSE IF 5 * 60 <= minutes /\ minutes < 6 * 60 THEN 60
    ELSE IF minutes < 5 * 60 THEN 30
    ELSE 80

\* variant: the ratio is rounded to the nearest integer
exercise_to_score_Rounded(minutes) ==
    IF minutes >= 30 THEN 100
    ELSE TruncDiv(minutes * 1000, 30) \div 10
            + (IF TruncDiv(minutes * 1000, 30) % 10 >= 5 THEN 1 ELSE 0)

exercise_to_score(minutes) ==
    IF minutes >= 30 THEN 100
    ELSE TruncDiv(minutes * 100, 30)

\* variant: the weights of sleep and exercise are swapped
Overall_SwappedWeights(s_sleep, s_ex, s_spo2, s_hr) ==
    TruncDiv(25 * s_sleep + 30 * s_ex + 25 * s_spo2 + 20 * s_hr, 100)

\* variant: the weighted sum is rounded to the nearest integer
Overall_Rounded(s_sleep, s_ex, s_spo2, s_hr) ==
    TruncDiv(30 * s_sleep + 25 * s_ex + 25 * s_spo2 + 20 * s_hr + 50, 100)

\* int(0.3 * s_sleep + 0.25 * s_ex + 0.25 * s_spo2 + 0.2 * s_hr)
Overall(s_sleep, s_ex, s_spo2, s_hr) ==
    TruncDiv(30 * s_sleep + 25 * s_ex + 25 * s_spo2 + 20 * s_hr, 100)

(***************************************************************************)
(* Activity labels and the substring tests on activity.lower().            *)
(***************************************************************************)
NoActivity == ""

ContainsSleep(a) == a \in {"Deep Sleep", "sleepwalking"}
ContainsExerciseOrWalk(a) == a \in {"walk", "Exercise", "sleepwalking"}

(***************************************************************************)
(* compute_daily_score_for_user                                            *)
(***************************************************************************)
\* sum(vals), folded by halves to keep the evaluation shallow
RECURSIVE SumRange(_, _, _)
SumRange(s, lo, hi) ==
    IF lo > hi THEN 0
    ELSE IF lo = hi THEN s[lo]
    ELSE LET mid == (lo + hi) \div 2
         IN  SumRange(s, lo, mid) + SumRange(s, mid + 1, hi)

SumSeq(s) == SumRange(s, 1, Len(s))

\* the query: rows of the subject with day_start <= recorded_at <= day_end
WindowStart(target_date, t) ==
    IF target_date.some THEN DayStart(target_date.v) ELSE t - TicksPerDay

WindowEnd(target_date, t) ==
    IF target_date.some THEN DayStart(target_date.v) + TicksPerDay - 1 ELSE t

\* variant: the query forgets the subject
InWindow_AnySubject(r, user_id, day_start, day_end) ==
    /\ r.recorded_at.some
    /\ r.recorded_at.v >= day_start
    /\ r.recorded_at.v <= day_end

InWindow(r, user_id, day_start, day_end) ==
    /\ r.user_id = user_id
    /\ r.recorded_at.some
    /\ r.recorded_at.v >= day_start
    /\ r.recorded_at.v <= day_end

WindowReadings(rs, user_id, target_date, t) ==
    LET P(r) == InWindow(r, user_id, WindowStart(target_date, t), WindowEnd(target_date, t))
    IN  SelectSeq(rs, P)

Vals(rs, field) ==
    LET P(r) == r[field].some
        sel == SelectSeq(rs, P)
    IN  [i \in 1..Len(sel) |-> sel[i][field].v]

\* variant: the mean is rounded up
Mean_Ceil(vals) ==
    IF Len(vals) = 0 THEN None
    ELSE Some((SumSeq(vals) + Len(vals) - 1) \div Len(vals))

Mean(vals) == IF Len(vals) = 0 THEN None ELSE Some(TruncDiv(SumSeq(vals), Len(vals)))

\* date.today(): the civil date of the host's local clock
Today(t, off) == DayOf(t + off)

DailyScore(rs, user_id, target_date, t, off) ==
    LET win == WindowReadings(rs, user_id, target_date, t)
        sleep_minutes == Cardinality({i \in 1..Len(win) : ContainsSleep(win[i].activity)})
        exercise_minutes ==
            Cardinality({i \in 1..Len(win) : ContainsExerciseOrWalk(win[i].activity)})
        avg_spo2 == Mean(Vals(win, "spo2"))
        avg_pulse == Mean(Vals(win, "pulse"))
        s_spo2 == spo2_to_score(avg_spo2)
        s_hr == resting_hr_score(avg_pulse)
        s_sleep == sleep_to_score(sleep_minutes)
        s_ex == exercise_to_score(exercise_minutes)
    IN  [user_id |-> user_id,
         score_date |-> IF target_date.some THEN target_date.v ELSE Today(t, off),
         sleep_score |-> s_sleep,
         exercise_score |-> s_ex,
         resting_hr_score |-> s_hr,
         spo2_score |-> s_spo2,
         overall_score |-> Overall(s_sleep, s_ex, s_spo2, s_hr)]

(***************************************************************************)
(* parse_recorded_at.  A date string is [k, d] with d its day number:      *)
(*   none   None / key missing            empty  ""                        *)
(*   dmy    dd/mm/YYYY                    ymd    YYYY-MM-DD                *)
(*   ymd1   YYYY-M-D without zero padding iso    YYYY-MM-DDTHH:MM:SS       *)
(*   bad    anything else                                                  *)
(* A time string is [k, h, half]: hour text h, minutes 00 or 30:           *)
(*   none, blank, hms (H:MM:SS), hm (H:MM), bad, nonstr (a truthy value    *)
(*   that is no string, so that .strip() raises).                          *)
(* A period is a string such as AM, PM, pm, night; upper() by table.        *)
(***************************************************************************)
NoDate == [k |-> "none", d |-> 0]
DateStr(kind, day) == [k |-> kind, d |-> day]

NoTime == [k |-> "none", h |-> 0, half |-> 0]
TimeStr(kind, hour, hf) == [k |-> kind, h |-> hour, half |-> hf]

Upper(p) == IF p = "pm" THEN "PM" ELSE IF p = "night" THEN "NIGHT" ELSE p

\* the date formats app_v0.py accepts: strptime %d/%m/%Y, %Y-%m-%d, fromisoformat
AppDateParses(date) == date.k \in {"dmy", "ymd", "ymd1", "iso"}

\* the date formats import_sp02_csv.py accepts: strptime %d/%m/%Y, fromisoformat
ImportDateParses(date) == date.k \in {"dmy", "ymd", "iso"}

\* the time of day in ticks, midnight when every format fails
TimeOfDay(time, period) ==
    LET per == Upper(period)
        tod(hour) == hour * TicksPerHour + time.half
    IN  IF time.k \notin {"hms", "hm"} THEN 0
        ELSE IF per \in {"AM", "PM"}
             THEN IF 1 <= time.h /\ time.h <= 12
                  THEN tod((time.h % 12) + (IF per = "PM" THEN 12 ELSE 0))
                  ELSE 0
             ELSE IF 0 <= time.h /\ time.h <= 23 THEN tod(time.h) ELSE 0

ParseWith(date_parses, csv_date, csv_time, csv_period) ==
    IF csv_date.k \in {"none", "empty"} THEN None
    ELSE IF ~date_parses THEN None
    ELSE Some(DayStart(csv_date.d) + TimeOfDay(csv_time, csv_period))

parse_recorded_at(csv_date, csv_time, csv_period) ==
    ParseWith(AppDateParses(csv_date), csv_date, csv_time, csv_period)

import_parse_recorded_at(csv_date, csv_time, csv_period) ==
    ParseWith(ImportDateParses(csv_date), csv_date, csv_time, csv_period)

\* (csv_time or '').strip() raises AttributeError once the date has parsed
ParseRaises(csv_date, csv_time) ==
    /\ AppDateParses(csv_date)
    /\ csv_time.k \in {"nonstr", "array"}

(***************************************************************************)
(* Rows of the tables.                                                     *)
(***************************************************************************)
PulseSpO2(user_id, csv_date, csv_time, csv_period, activity, hr_raw, spo2_raw, recorded_at, pulse, spo2) ==
    [user_id |-> user_id, csv_date |-> csv_date, csv_time |-> csv_time,
     csv_period |-> csv_period, activity |-> activity, hr_raw |-> hr_raw,
     spo2_raw |-> spo2_raw, recorded_at |-> recorded_at, pulse |-> pulse,
     spo2 |-> spo2]

\* pwd is the password the stored hash was made from
UserAuth(user_id, plain_pwd, pwd, role) ==
    [user_id |-> user_id, plain_pwd |-> plain_pwd, pwd |-> pwd, role |-> role]

Admin == UserAuth("admin", "AdminPass123", "AdminPass123", "admin")

\* UserAuth.query.filter_by(user_id=...).first() is not None
UserExists(us, user_id) == \E i \in 1..Len(us) : us[i].user_id = user_id

\* no batch run: pc is idle, rows (inside the loop), done or aborted; pendR
\* and pendU are the rows the session added and has not committed
NoRun ==
    [op |-> "none", rows |-> <<>>, pos |-> 0, pendR |-> <<>>, pendU |-> <<>>,
     pc |-> "idle"]

\* no live call in flight
NoCalls == <<>>

(***************************************************************************)
(* Live payloads.  Identity fields are [k, v] with k one of absent, null,  *)
(* empty, id (the string SubjectName[v]); recorded_at is [k, v, off] with  *)
(* k one of absent, null, empty, bad, naive (wall clock v), aware (wall    *)
(* clock v at UTC offset off); timestamp is a JSON value whose number is   *)
(* in ticks.                                                               *)
(***************************************************************************)
SubjectName == <<"u1", "u2", "admin">>
JId(n) == [k |-> "id", v |-> n]

RAbsent == [k |-> "absent", v |-> 0, off |-> 0]
RBad == [k |-> "bad", v |-> 0, off |-> 0]
RNaive(t) == [k |-> "naive", v |-> t, off |-> 0]
RAware(t, o) == [k |-> "aware", v |-> t, off |-> o]

\* payload.get('user_id') or payload.get('device_id')
ResolveUid(payload) ==
    IF Truthy(payload.user_id) THEN payload.user_id ELSE payload.device_id

\* str(uid)
UidStr(uid) ==
    CASE uid.k = "id" -> SubjectName[uid.v]
      [] uid.k = "empty" -> ""
      [] OTHER -> "None"

\* variant: the csv triple is tried before the unix timestamp
ResolveRec_TripleFirst(payload) ==
    LET r1 == IF payload.recorded_at.k = "naive"
                  THEN [some |-> TRUE, v |-> payload.recorded_at.v, aware |-> FALSE, off |-> 0]
              ELSE IF payload.recorded_at.k = "aware"
                  THEN [some |-> TRUE, v |-> payload.recorded_at.v, aware |-> TRUE,
                        off |-> payload.recorded_at.off]
              ELSE [some |-> FALSE, v |-> 0, aware |-> FALSE, off |-> 0]
        parsed == parse_recorded_at(payload.csv_date, payload.csv_time, payload.csv_period)
        r2 == IF ~r1.some /\ ~ParseRaises(payload.csv_date, payload.csv_time) /\ parsed.some
                  THEN [some |-> TRUE, v |-> parsed.v, aware |-> FALSE, off |-> 0]
              ELSE r1
        r3 == IF ~r2.some /\ ~IsNone(payload.timestamp) /\ PyInt(payload.timestamp).some
                  THEN [some |-> TRUE, v |-> PyInt(payload.timestamp).v, aware |-> FALSE, off |-> 0]
              ELSE r2
    IN  r3

\* lines 593-615: the first source that yields a datetime; tz is "naive" or
\* "aware"
ResolveRec(payload) ==
    LET r1 == IF payload.recorded_at.k = "naive"
                  THEN [some |-> TRUE, v |-> payload.recorded_at.v, aware |-> FALSE, off |-> 0]
              ELSE IF payload.recorded_at.k = "aware"
                  THEN [some |-> TRUE, v |-> payload.recorded_at.v, aware |-> TRUE,
                        off |-> payload.recorded_at.off]
              ELSE [some |-> FALSE, v |-> 0, aware |-> FALSE, off |-> 0]
        r2 == IF ~r1.some /\ ~IsNone(payload.timestamp) /\ PyInt(payload.timestamp).some
                  THEN [some |-> TRUE, v |-> PyInt(payload.timestamp).v, aware |-> FALSE, off |-> 0]
              ELSE r1
        parsed == parse_recorded_at(payload.csv_date, payload.csv_time, payload.csv_period)
        r3 == IF ~r2.some /\ ~ParseRaises(payload.csv_date, payload.csv_time) /\ parsed.some
                  THEN [some |-> TRUE, v |-> parsed.v, aware |-> FALSE, off |-> 0]
              ELSE r2
    IN  r3

\* lines 617-628: rec.astimezone(IST) reads a naive rec as local time of the
\* host; without rec, datetime.now(IST).  The result is the IST wall clock.
ResolveRecordedAt(payload, t, off) ==
    LET rec == ResolveRec(payload)
    IN  IF rec.some
        THEN IF rec.aware THEN rec.v - rec.off + IST
             ELSE rec.v - off + IST
        ELSE t + IST

\* lines 633-659
ResolveHrRaw(payload) ==
    LET first == IF InPayload(payload.hr_raw) /\ ~IsNone(payload.hr_raw)
                     THEN PyFloat(payload.hr_raw)
                 ELSE IF InPayload(payload.pulse) /\ ~IsNone(payload.pulse)
                     THEN PyFloat(payload.pulse)
                 ELSE None
    IN  IF ~first.some /\ ~IsNone(payload.heart_rate)
        THEN IF IsNone(payload.heart_rate_valid) \/ Truthy(payload.heart_rate_valid)
             THEN PyFloat(payload.heart_rate)
             ELSE None
        ELSE first

\* lines 661-683
ResolveSpo2Raw(payload) ==
    LET first == IF InPayload(payload.spo2_raw) /\ ~IsNone(payload.spo2_raw)
                     THEN PyFloat(payload.spo2_raw)
                 ELSE IF InPayload(payload.spo2) /\ ~IsNone(payload.spo2)
                     THEN PyFloat(payload.spo2)
                 ELSE None
    IN  IF ~first.some /\ ~IsNone(payload.spo2)
        THEN IF IsNone(payload.spo2_valid) \/ Truthy(payload.spo2_valid)
             THEN PyFloat(payload.spo2)
             ELSE None
        ELSE first

\* lines 686-694: int(round(raw)) if raw is not None else int(payload[alias])
FinalInt(raw, alias) ==
    IF raw.some THEN Some(PyRound(raw.v))
    ELSE IF ~IsNone(alias) THEN PyInt(alias)
    ELSE None

LiveReading(payload, t, off) ==
    LET hr_raw == ResolveHrRaw(payload)
        spo2_raw == ResolveSpo2Raw(payload)
    IN  PulseSpO2(UidStr(ResolveUid(payload)),
                  payload.csv_date, payload.csv_time, payload.csv_period,
                  payload.activity, hr_raw, spo2_raw,
                  Some(ResolveRecordedAt(payload, t, off)),
                  FinalInt(hr_raw, payload.heart_rate),
                  FinalInt(spo2_raw, payload.spo2))

\* lines 721-729: the identity record of a live subject, password = user id
LiveUser(user_id) == UserAuth(user_id, user_id, user_id, "user")

\* variant: an existing identity record is overwritten with the default one
EnsureUser_Overwrite(us, ua) ==
    IF UserExists(us, ua.user_id)
    THEN [i \in 1..Len(us) |-> IF us[i].user_id = ua.user_id THEN ua ELSE us[i]]
    ELSE Append(us, ua)

EnsureUser(us, ua) == IF UserExists(us, ua.user_id) THEN us ELSE Append(us, ua)

(***************************************************************************)
(* The payloads and requests the model sends.                              *)
(***************************************************************************)
Now0 == 3 * TicksPerDay + 20
T1 == 2 * TicksPerDay + 21
T2 == T1 + 20

BasePayload ==
    [user_id |-> JId(1), device_id |-> JAbsent,
     recorded_at |-> RAbsent, timestamp |-> JAbsent,
     csv_date |-> NoDate, csv_time |-> NoTime, csv_period |-> "",
     hr_raw |-> JAbsent, pulse |-> JAbsent,
     heart_rate |-> JAbsent, heart_rate_valid |-> JAbsent,
     spo2_raw |-> JAbsent, spo2 |-> JAbsent, spo2_valid |-> JAbsent,
     activity |-> NoActivity]

IdValues == {JAbsent, JNull, JEmpty, JId(1), JId(2)}

IdentityPayloads ==
    {[BasePayload EXCEPT !.user_id = u, !.device_id = d, !.heart_rate = JNum(720)] :
        u \in IdValues, d \in {JAbsent, JNull, JId(2)}}
        \cup {[BasePayload EXCEPT !.user_id = JAbsent, !.device_id = JEmpty],
              [BasePayload EXCEPT !.user_id = JId(3), !.heart_rate = JNum(720)],
              [BasePayload EXCEPT !.user_id = JEmpty, !.device_id = JId(3)]}

PulsePayloads ==
    {[BasePayload EXCEPT !.hr_raw = a, !.pulse = b, !.heart_rate = c] :
        a \in {JAbsent, JNull, JNum(716), JBad},
        b \in {JAbsent, JNum(650)},
        c \in {JAbsent, JNum(720), JStr(725)}}
    \cup
    {[BasePayload EXCEPT !.hr_raw = a, !.heart_rate = c, !.heart_rate_valid = f] :
        a \in {JAbsent, JBad},
        c \in {JAbsent, JNum(720), JNum(725), JStr(725)},
        f \in {JNull, JBool(FALSE), JBool(TRUE), JNum(0)}}
    \cup
    {[BasePayload EXCEPT !.pulse = JNum(650), !.heart_rate = JNum(720),
                         !.heart_rate_valid = JBool(FALSE)]}

Spo2Payloads ==
    {[BasePayload EXCEPT !.spo2_raw = a, !.spo2 = b, !.spo2_valid = f] :
        a \in {JAbsent, JNum(965), JBad},
        b \in {JAbsent, JNum(970), JStr(975)},
        f \in {JAbsent, JBool(FALSE), JBool(TRUE)}}

TimePayloads ==
    {[BasePayload EXCEPT !.recorded_at = a, !.timestamp = b, !.csv_date = c,
                         !.csv_time = TimeStr("hms", 5, 1), !.csv_period = "PM"] :
        a \in {RAbsent, RBad, RNaive(T1), RAware(T1, 0)},
        b \in {JAbsent, JNum(10 * T2), JBad},
        c \in {NoDate, DateStr("dmy", 1), DateStr("bad", 0)}}

Payloads == IdentityPayloads \cup PulsePayloads \cup Spo2Payloads \cup TimePayloads

NoRows == <<>>

Request(op, key_ok, is_json, db_ok, payload, rows, user_id, target_date) ==
    [op |-> op, key_ok |-> key_ok, is_json |-> is_json, db_ok |-> db_ok,
     payload |-> payload, rows |-> rows, user_id |-> user_id,
     target_date |-> target_date]

SensorRequest(key_ok, is_json, db_ok, payload) ==
    Request("sensor", key_ok, is_json, db_ok, payload, NoRows, "", None)

SensorRequests ==
    {SensorRequest(TRUE, TRUE, TRUE, p) : p \in Payloads}
    \cup {SensorRequest(g[1], g[2], g[3], [BasePayload EXCEPT !.user_id = u, !.heart_rate = JNum(720)]) :
            g \in {<<FALSE, TRUE, TRUE>>, <<TRUE, FALSE, TRUE>>, <<TRUE, TRUE, FALSE>>},
            u \in {JId(1), JAbsent}}

NoRequest == Request("none", TRUE, TRUE, TRUE, BasePayload, NoRows, "", None)

Response(op, status, error, id, hs) ==
    [op |-> op, status |-> status, error |-> error, id |-> id, hs |-> hs]

NoResponse == Response("none", 0, "", 0, None)

(***************************************************************************)
(* api_sensor_data: POST /api/sensor-data                                  *)
(***************************************************************************)
\* csv_date and csv_time go to their text columns as the payload gave them;
\* the database driver binds strings and numbers and raises on a JSON array
\* or object (kind array), inside the try block around the insert
Bindable(payload) == payload.csv_date.k # "array" /\ payload.csv_time.k # "array"

\* variant: only a null or missing identifier is rejected
SensorOutcome_NoneOnly(r, rs, us, t, off) ==
    IF ~r.key_ok
        THEN [readings |-> rs, users |-> us,
              resp |-> Response("sensor", 401, "invalid api key", 0, None)]
    ELSE IF ~r.is_json
        THEN [readings |-> rs, users |-> us,
              resp |-> Response("sensor", 400, "expected application/json", 0, None)]
    ELSE IF IsNone(ResolveUid(r.payload))
        THEN [readings |-> rs, users |-> us,
              resp |-> Response("sensor", 400, "user_id or device_id required", 0, None)]
    ELSE IF ~r.db_ok \/ ~Bindable(r.payload)
        THEN [readings |-> rs, users |-> us,
              resp |-> Response("sensor", 500, "db error", 0, None)]
    ELSE LET p == LiveReading(r.payload, t, off)
         IN  [readings |-> Append(rs, p),
              users |-> EnsureUser(us, LiveUser(p.user_id)),
              resp |-> Response("sensor", 201, "", Len(rs) + 1, None)]

SensorOutcome(r, rs, us, t, off) ==
    IF ~r.key_ok
        THEN [readings |-> rs, users |-> us,
              resp |-> Response("sensor", 401, "invalid api key", 0, None)]
    ELSE IF ~r.is_json
        THEN [readings |-> rs, users |-> us,
              resp |-> Response("sensor", 400, "expected application/json", 0, None)]
    ELSE IF ~Truthy(ResolveUid(r.payload))
        THEN [readings |-> rs, users |-> us,
              resp |-> Response("sensor", 400, "user_id or device_id required", 0, None)]
    ELSE IF ~r.db_ok \/ ~Bindable(r.payload)
        THEN [readings |-> rs, users |-> us,
              resp |-> Response("sensor", 500, "db error", 0, None)]
    ELSE LET p == LiveReading(r.payload, t, off)
         IN  [readings |-> Append(rs, p),
              users |-> EnsureUser(us, LiveUser(p.user_id)),
              resp |-> Response("sensor", 201, "", Len(rs) + 1, None)]

\* cap bounds the number of rows of pulse_sp02_data
ApiSensorDataCapped(r, cap) ==
    /\ \E out \in {SensorOutcome(r, readings, users, now, hostOffset)} :
          /\ Len(readings) < cap \/ out.resp.status # 201
          /\ readings' = out.readings
          /\ users' = out.users
          /\ resp' = out.resp
    /\ req' = r
    /\ UNCHANGED <<scores, now, hostOffset, fnArgs, fnRes, fnPc, run, calls>>

ApiSensorData(r) == ApiSensorDataCapped(r, MaxReadings)

(***************************************************************************)
(* Batch import: seed_from_csv (app_v0.py) and main (import_sp02_csv.py).  *)
(* A CSV cell is a JSON value of kind absent (no such column), empty, str  *)
(* or bad; identity cells are strings, "" when empty or missing.           *)
(***************************************************************************)
CsvRow(person_id, user_id, person, date, time, period, activity, hr, spo2) ==
    [person_id |-> person_id, user_id |-> user_id, person |-> person,
     date |-> date, time |-> time, period |-> period, activity |-> activity,
     hr |-> hr, spo2 |-> spo2]

\* r.get('person_id') or r.get('user_id') or r.get('person') or 'unknown'
SeedPid(r) ==
    IF r.person_id # "" THEN r.person_id
    ELSE IF r.user_id # "" THEN r.user_id
    ELSE IF r.person # "" THEN r.person
    ELSE "unknown"

\* row.get('person_id') or row.get('user_id') or 'unknown'
ImportPid(r) ==
    IF r.person_id # "" THEN r.person_id
    ELSE IF r.user_id # "" THEN r.user_id
    ELSE "unknown"

\* a cell such as "nan" or "inf": float() accepts it and yields a value that
\* is not finite
JNan == [k |-> "nan", v |-> 0]

\* int(round(raw)) raises ValueError or OverflowError on a value that is not
\* finite; the batch loops call it outside their try blocks
RoundRaises(cell) == cell.k = "nan"

RowRaises(r) == RoundRaises(r.hr) \/ RoundRaises(r.spo2)

\* if added % 500 == 0: commit
CommitEvery == 500

\* the number of rows a whole run commits: all of them, or those before the
\* last commit that precedes the first row whose rounding raises
CommittedRows(rows) ==
    LET raising == {i \in 1..Len(rows) : RowRaises(rows[i])}
    IN  IF raising = {} THEN Len(rows)
        ELSE CommitEvery * (((CHOOSE i \in raising : \A j \in raising : i <= j) - 1) \div CommitEvery)

\* float(r.get(col)) if r.get(col) else None, None when float raises
CsvFloat(cell) == IF Truthy(cell) THEN PyFloat(cell) ELSE None

\* int(round(raw)) if raw is not None else None
RoundOrNone(raw) == IF raw.some THEN Some(PyRound(raw.v)) ELSE None

SeedReading(r) ==
    LET hr_raw == CsvFloat(r.hr)
        spo2_raw == CsvFloat(r.spo2)
    IN  PulseSpO2(SeedPid(r), r.date, r.time, r.period, r.activity,
                  hr_raw, spo2_raw,
                  parse_recorded_at(r.date, r.time, r.period),
                  RoundOrNone(hr_raw), RoundOrNone(spo2_raw))

ImportReading(r) ==
    LET hr_raw == CsvFloat(r.hr)
        spo2_raw == CsvFloat(r.spo2)
    IN  PulseSpO2(ImportPid(r), r.date, r.time, r.period, r.activity,
                  hr_raw, spo2_raw,
                  import_parse_recorded_at(r.date, r.time, r.period),
                  RoundOrNone(hr_raw), RoundOrNone(spo2_raw))

\* the identity record of a batch subject: no plain password, hash of 'changeme'
BatchUser(user_id) == UserAuth(user_id, "", "changeme", "user")

\* the user_auth table after the rows' subjects were ensured, in row order
\* (each row ensures its subject right after its reading was added, so the
\* new records come in the order in which the subjects first appear)
\* pids[i] is the subject of row i
EnsureUsers(us, pids) ==
    LET n == Len(pids)
        fresh == {p \in {pids[i] : i \in 1..n} : ~UserExists(us, p)}
        FirstRow(p) == CHOOSE i \in 1..n : pids[i] = p /\ \A j \in 1..(i - 1) : pids[j] # p
        firsts == {FirstRow(p) : p \in fresh}
        Nth(k) == CHOOSE i \in firsts : Cardinality({j \in firsts : j <= i}) = k
    IN  us \o [k \in 1..Cardinality(firsts) |-> BatchUser(pids[Nth(k)])]

\* init_db on a start with the CSV present: seeds only an empty table
InitDbSeed(rows) ==
    /\ Len(readings) = 0
    /\ \E n \in {CommittedRows(rows)} :
          /\ readings' = [i \in 1..n |-> SeedReading(rows[i])]
          /\ users' = EnsureUsers(EnsureUser(users, Admin), [i \in 1..n |-> SeedPid(rows[i])])
          /\ resp' = Response("seed", 0, IF n = Len(rows) THEN "" ELSE "raised", n, None)
    /\ req' = Request("seed", TRUE, TRUE, TRUE, BasePayload, rows, "", None)
    /\ UNCHANGED <<scores, now, hostOffset, fnArgs, fnRes, fnPc, run, calls>>

\* python import_sp02_csv.py
ImportMain(rows) ==
    /\ \E n \in {CommittedRows(rows)} :
          /\ readings' = readings \o [i \in 1..n |-> ImportReading(rows[i])]
          /\ users' = EnsureUsers(users, [i \in 1..n |-> ImportPid(rows[i])])
          /\ resp' = Response("import", 0, IF n = Len(rows) THEN "" ELSE "raised", n, None)
    /\ req' = Request("import", TRUE, TRUE, TRUE, BasePayload, rows, "", None)
    /\ UNCHANGED <<scores, now, hostOffset, fnArgs, fnRes, fnPc, run, calls>>

(***************************************************************************)
(* The same two loops, one row per step.  The session holds the rows added *)
(* since the last commit; a query flushes the session first (autoflush),   *)
(* so it sees them.                                                        *)
(***************************************************************************)
RunOf(op, rows) ==
    [op |-> op, rows |-> rows, pos |-> 0, pendR |-> <<>>, pendU |-> <<>>,
     pc |-> "rows"]

\* variant: the query does not see the rows the session has not committed
VisibleUsers_CommittedOnly(us, pend) == us

\* the rows of user_auth a query inside the session sees
VisibleUsers(us, pend) == us \o pend

\* session.add(rec); add the identity record if the query finds none; count
SessionAdd(rn, us, rd, ua) ==
    [rn EXCEPT !.pos = @ + 1,
               !.pendR = Append(@, rd),
               !.pendU = IF UserExists(VisibleUsers(us, @), ua.user_id) THEN @ ELSE Append(@, ua)]

\* session.commit(): the pending rows reach the tables in the order added
SessionCommit(rn) ==
    /\ readings' = readings \o rn.pendR
    /\ users' = users \o rn.pendU
    /\ run' = [rn EXCEPT !.pendR = <<>>, !.pendU = <<>>]

\* the exception leaves the loop and ends the process: nothing pending is kept
SessionAbort(op) ==
    /\ run' = [run EXCEPT !.pc = "aborted", !.pendR = <<>>, !.pendU = <<>>]
    /\ resp' = Response(op, 0, "raised", run.pos, None)
    /\ UNCHANGED <<readings, users>>

\* init_db up to the call of seed_from_csv, and the reading of the file
SeedStart(rows) ==
    /\ run.pc # "rows"
    /\ Len(readings) = 0
    /\ users' = EnsureUser(users, Admin)
    /\ run' = RunOf("seed", rows)
    /\ req' = Request("seed", TRUE, TRUE, TRUE, BasePayload, NoRows, "", None)
    /\ resp' = NoResponse
    /\ UNCHANGED <<readings, scores, now, hostOffset, fnArgs, fnRes, fnPc, calls>>

\* one pass of the loop of seed_from_csv
SeedRow ==
    /\ run.op = "seed" /\ run.pc = "rows" /\ run.pos < Len(run.rows)
    /\ \E row \in {run.rows[run.pos + 1]} :
          IF RowRaises(row)
          THEN SessionAbort("seed")
          ELSE \E s \in {SessionAdd(run, users, SeedReading(row), BatchUser(SeedPid(row)))} :
                  /\ IF s.pos % CommitEvery = 0
                     THEN SessionCommit(s)
                     ELSE run' = s /\ UNCHANGED <<readings, users>>
                  /\ UNCHANGED resp
    /\ UNCHANGED <<scores, req, now, hostOffset, fnArgs, fnRes, fnPc, calls>>

\* the commit after the loop of seed_from_csv
SeedEnd ==
    /\ run.op = "seed" /\ run.pc = "rows" /\ run.pos = Len(run.rows)
    /\ SessionCommit([run EXCEPT !.pc = "done"])
    /\ resp' = Response("seed", 0, "", run.pos, None)
    /\ UNCHANGED <<scores, req, now, hostOffset, fnArgs, fnRes, fnPc, calls>>

\* main of import_sp02_csv.py up to the loop
ImportStart(rows) ==
    /\ run.pc # "rows"
    /\ run' = RunOf("import", rows)
    /\ req' = Request("import", TRUE, TRUE, TRUE, BasePayload, NoRows, "", None)
    /\ resp' = NoResponse
    /\ UNCHANGED <<readings, users, scores, now, hostOffset, fnArgs, fnRes, fnPc, calls>>

\* one pass of the loop of main
ImportRow ==
    /\ run.op = "import" /\ run.pc = "rows" /\ run.pos < Len(run.rows)
    /\ \E row \in {run.rows[run.pos + 1]} :
          IF RowRaises(row)
          THEN SessionAbort("import")
          ELSE \E s \in {SessionAdd(run, users, ImportReading(row), BatchUser(ImportPid(row)))} :
                  /\ IF s.pos % CommitEvery = 0
                     THEN SessionCommit(s)
                     ELSE run' = s /\ UNCHANGED <<readings, users>>
                  /\ UNCHANGED resp
    /\ UNCHANGED <<scores, req, now, hostOffset, fnArgs, fnRes, fnPc, calls>>

\* the commit after the loop of main
ImportEnd ==
    /\ run.op = "import" /\ run.pc = "rows" /\ run.pos = Len(run.rows)
    /\ SessionCommit([run EXCEPT !.pc = "done"])
    /\ resp' = Response("import", 0, "", run.pos, None)
    /\ UNCHANGED <<scores, req, now, hostOffset, fnArgs, fnRes, fnPc, calls>>

\* the CSV files of the ingestion model
IdentityRows ==
    {CsvRow(a, b, c, DateStr("dmy", 2), TimeStr("hms", 5, 1), "AM", "rest",
            JStr(716), JStr(965)) :
        a \in {"", "u1"}, b \in {"", "u2"}, c \in {"", "u3"}}

MetricRows ==
    {CsvRow("u1", "", "", DateStr("ymd1", 2), TimeStr("hm", 13, 0), "PM", "walk", h, o) :
        h \in {JAbsent, JEmpty, JStr(725), JStr(735), JBad},
        o \in {JEmpty, JStr(970)}}

CsvRows == IdentityRows \cup MetricRows

PairRows ==
    {CsvRow(a, "", "", DateStr("bad", 0), NoTime, "", "Deep Sleep", JStr(650), JEmpty) :
        a \in {"u1", "u2"}}

CsvFiles == {<<r>> : r \in CsvRows} \cup {<<r1, r2>> : r1 \in PairRows, r2 \in PairRows}

(***************************************************************************)
(* The ingestion model: live calls and batch imports on an empty store.    *)
(***************************************************************************)
HostOffsets == {0, IST}

Init ==
    /\ readings = <<>>
    /\ users = <<Admin>>
    /\ scores = <<>>
    /\ req = NoRequest
    /\ resp = NoResponse
    /\ now = Now0
    /\ hostOffset \in HostOffsets
    /\ fnArgs = <<>>
    /\ fnRes = <<>>
    /\ fnPc = "idle"
    /\ run = NoRun
    /\ calls = NoCalls

Next ==
    \/ \E r \in SensorRequests : ApiSensorData(r)
    \/ \E f \in CsvFiles : Len(f) <= MaxReadings /\ InitDbSeed(f)
    \/ \E f \in CsvFiles : Len(readings) + Len(f) <= MaxReadings /\ ImportMain(f)

Spec == Init /\ [][Next]_vars

(***************************************************************************)
(* compute_daily_score_for_user as an operation on the store.              *)
(***************************************************************************)
ScoreRequest(user_id, target_date) ==
    Request("score", TRUE, TRUE, TRUE, BasePayload, NoRows, user_id, target_date)

\* variant: a record of the same subject and day is replaced (upsert)
PersistScore_Upsert(ss, hs) ==
    IF \E i \in 1..Len(ss) : ss[i].user_id = hs.user_id /\ ss[i].score_date = hs.score_date
    THEN [i \in 1..Len(ss) |->
            IF ss[i].user_id = hs.user_id /\ ss[i].score_date = hs.score_date
            THEN hs ELSE ss[i]]
    ELSE Append(ss, hs)

\* db.session.add(hs); db.session.commit()
PersistScore(ss, hs) == Append(ss, hs)

\* cap bounds the number of rows of health_scores
ComputeDailyScoreCapped(user_id, target_date, cap) ==
    /\ \E n \in {Len(WindowReadings(readings, user_id, target_date, now))} :
          IF n = 0
          THEN /\ scores' = scores
               /\ resp' = Response("score", 0, "", 0, None)
          ELSE /\ Len(scores) < cap
               /\ \E hs \in {DailyScore(readings, user_id, target_date, now, hostOffset)} :
                     /\ scores' = PersistScore(scores, hs)
                     /\ resp' = Response("score", 0, "", Len(scores'), Some(hs))
    /\ req' = ScoreRequest(user_id, target_date)
    /\ UNCHANGED <<readings, users, now, hostOffset, fnArgs, fnRes, fnPc, run, calls>>

ComputeDailyScore(user_id, target_date) ==
    ComputeDailyScoreCapped(user_id, target_date, MaxScores)

(***************************************************************************)
(* The scoring model: one day of one subject is imported, then scored.     *)
(* A day file holds the metric rows of u1 on day ScoreDay, rows of sleep,  *)
(* rows of walking, and optionally rows that must stay out of the window:  *)
(* another subject, another day, an unparsable date.                       *)
(***************************************************************************)
ScoreDay == DayOf(T1)

Rep(x, n) == [i \in 1..n |-> x]

DayRow(person_id, date, activity, hr, spo2) ==
    CsvRow(person_id, "", "", date, TimeStr("hms", 11, 1), "PM", activity, hr, spo2)

OnDay == DateStr("dmy", ScoreDay)

MetricRow(m) == DayRow("u1", OnDay, "rest", m[1], m[2])
SleepRow == DayRow("u1", OnDay, "Deep Sleep", JEmpty, JEmpty)
WalkRow == DayRow("u1", OnDay, "walk", JEmpty, JEmpty)

NoiseRows ==
    << DayRow("u2", OnDay, "sleepwalking", JStr(1200), JStr(800)),
       DayRow("u1", DateStr("ymd", ScoreDay - 1), "Exercise", JStr(1100), JStr(850)),
       DayRow("u1", DateStr("bad", ScoreDay), "Deep Sleep", JStr(400), JStr(990)) >>

MetricSets ==
    { <<>>,
      << <<JStr(650), JStr(960)>>, <<JStr(700), JStr(970)>> >>,
      << <<JStr(725), JStr(890)>> >>,
      << <<JStr(550), JStr(934)>>, <<JEmpty, JStr(925)>> >>,
      << <<JStr(470), JStr(990)>>, <<JBad, JEmpty>> >>,
      << <<JStr(300), JEmpty>> >> }

SleepCounts == {0, 299, 300, 359, 360, 419, 420, 480, 540, 541}
WalkCounts == {0, 5, 20, 29, 30, 31}

\* pairs of a number of sleep rows and a number of walk rows
CountPairs == {<<480, 30>>, <<0, 20>>, <<300, 5>>, <<541, 0>>, <<0, 0>>}

SweepMetrics == << <<JStr(725), JStr(890)>> >>

DayFile(ms, ns, nw, noisy) ==
    [i \in 1..Len(ms) |-> MetricRow(ms[i])]
        \o Rep(SleepRow, ns) \o Rep(WalkRow, nw)
        \o (IF noisy THEN NoiseRows ELSE <<>>)

DayFiles ==
    {DayFile(ms, c[1], c[2], TRUE) : ms \in MetricSets, c \in CountPairs}
        \cup {DayFile(ms, 480, 30, FALSE) : ms \in MetricSets}
        \cup {DayFile(SweepMetrics, ns, 20, TRUE) : ns \in SleepCounts}
        \cup {DayFile(SweepMetrics, 480, nw, TRUE) : nw \in WalkCounts}

ScoreSubjects == {"u1", "u2"}
TargetDates == {None, Some(ScoreDay), Some(ScoreDay + 1)}

NextScore ==
    \/ \E f \in DayFiles : InitDbSeed(f)
    \/ \E u \in ScoreSubjects, d \in TargetDates : ComputeDailyScore(u, d)

SpecScore == Init /\ [][NextScore]_vars

(***************************************************************************)
(* The batch model: CSV files go through the seed import of the app and    *)
(* through the import script.                                              *)
(***************************************************************************)
BatchDates ==
    {NoDate, DateStr("empty", 0), DateStr("dmy", 2), DateStr("ymd", 2),
     DateStr("ymd1", 2), DateStr("iso", 2), DateStr("bad", 0)}

\* pairs of a time cell and a period cell
BatchTimes ==
    {<<NoTime, "">>, <<TimeStr("blank", 0, 0), "AM">>,
     <<TimeStr("hms", 5, 1), "AM">>, <<TimeStr("hms", 5, 1), "pm">>,
     <<TimeStr("hms", 12, 0), "AM">>, <<TimeStr("hm", 13, 0), "">>,
     <<TimeStr("hm", 13, 0), "PM">>, <<TimeStr("hms", 5, 1), "night">>,
     <<TimeStr("hm", 24, 0), "">>, <<TimeStr("bad", 0, 0), "night">>}

TimeRows ==
    {CsvRow("u1", "", "", d, t[1], t[2], "rest", JStr(716), JStr(965)) :
        d \in BatchDates, t \in BatchTimes}

BatchFiles == {<<r>> : r \in TimeRows \cup IdentityRows \cup MetricRows}

NextBatch ==
    \/ \E f \in BatchFiles : Len(f) <= MaxReadings /\ InitDbSeed(f)
    \/ \E f \in BatchFiles : Len(readings) + Len(f) <= MaxReadings /\ ImportMain(f)

SpecBatch == Init /\ [][NextBatch]_vars

(***************************************************************************)
(* The repetition model: a few rows are imported, then scores are          *)
(* computed again and again for the same subjects and days.                *)
(***************************************************************************)
RepeatRows ==
    << DayRow("u1", OnDay, "walk", JStr(700), JStr(960)),
       DayRow("u2", OnDay, "Deep Sleep", JStr(550), JStr(930)),
       DayRow("u1", DateStr("ymd", ScoreDay + 1), "rest", JStr(900), JStr(890)) >>

RepeatFiles ==
    {<<RepeatRows[1]>>, <<RepeatRows[1], RepeatRows[2]>>, <<RepeatRows[1], RepeatRows[3]>>,
     <<RepeatRows[2], RepeatRows[3]>>, RepeatRows}

NextRepeat ==
    \/ \E f \in RepeatFiles : InitDbSeed(f)
    \/ \E u \in ScoreSubjects, d \in TargetDates : ComputeDailyScoreCapped(u, d, MaxRepeats)

SpecRepeat == Init /\ [][NextRepeat]_vars

(***************************************************************************)
(* The helper model: a scoring helper is applied to a pair of arguments.   *)
(***************************************************************************)
ArgValues == {None} \cup {Some(v) : v \in (0 - ArgSpan)..(100 + ArgSpan)}

InitFn ==
    /\ readings = <<>>
    /\ users = <<Admin>>
    /\ scores = <<>>
    /\ req = NoRequest
    /\ resp = NoResponse
    /\ now = Now0
    /\ hostOffset = 0
    /\ fnArgs \in {<<a, b>> : a \in ArgValues, b \in ArgValues}
    /\ fnRes = <<0, 0>>
    /\ fnPc = "idle"
    /\ run = NoRun
    /\ calls = NoCalls

ApplySpo2ToScore ==
    /\ fnPc = "idle"
    /\ fnRes' = <<spo2_to_score(fnArgs[1]), spo2_to_score(fnArgs[2])>>
    /\ fnPc' = "spo2_to_score"
    /\ UNCHANGED <<readings, users, scores, req, resp, now, hostOffset, fnArgs, run, calls>>

ApplyRestingHrScore ==
    /\ fnPc = "idle"
    /\ fnRes' = <<resting_hr_score(fnArgs[1]), resting_hr_score(fnArgs[2])>>
    /\ fnPc' = "resting_hr_score"
    /\ UNCHANGED <<readings, users, scores, req, resp, now, hostOffset, fnArgs, run, calls>>

NextFn ==
    \/ ApplySpo2ToScore
    \/ ApplyRestingHrScore

SpecFn == InitFn /\ [][NextFn]_vars

(***************************************************************************)
(* Properties.                                                             *)
(***************************************************************************)
\* the weighted sum of a HealthScores row, in hundredths
Weighted(h) ==
    30 * h.sleep_score + 25 * h.exercise_score + 25 * h.spo2_score
        + 20 * h.resting_hr_score

\* x (an integer) is a nearest integer of t tenths
NearestOfTenths(x, t) == Abs(10 * x - t) <= 5

\* the call passed the API key and content type checks
Admitted(r) == r.op = "sensor" /\ r.key_ok /\ r.is_json

\* the payload lacks both identifiers: absent, null or empty
LacksIdentity(payload) ==
    /\ payload.user_id.k \in {"absent", "null", "empty"}
    /\ payload.device_id.k \in {"absent", "null", "empty"}

\* the payload carries a number in heart_rate, a flag that is false or zero,
\* and neither hr_raw nor pulse
FlaggedHeartRate(payload) ==
    /\ payload.heart_rate.k = "num"
    /\ payload.heart_rate_valid.k \in {"bool", "num"}
    /\ ~Truthy(payload.heart_rate_valid)
    /\ payload.hr_raw.k = "absent"
    /\ payload.pulse.k = "absent"

\* C1: a live payload with a numeric heart_rate whose heart_rate_valid flag is
\* present and false (no hr_raw, no pulse) is written as a Reading with
\* pulse absent and hrRaw absent.
C1_FlaggedHeartRateDropped ==
    (Admitted(req) /\ resp.status = 201 /\ FlaggedHeartRate(req.payload))
        => /\ ~readings[resp.id].pulse.some
           /\ ~readings[resp.id].hr_raw.some

\* C2: a live call whose payload lacks both user_id and device_id is rejected
\* with the missing-identity client error and changes no table.
C2_MissingIdentityRejected ==
    [][(Admitted(req') /\ LacksIdentity(req'.payload))
          => /\ resp'.status = 400
             /\ resp'.error = "user_id or device_id required"
             /\ readings' = readings
             /\ users' = users
             /\ scores' = scores]_vars

C2_Rejected ==
    /\ Admitted(req)
    /\ LacksIdentity(req.payload)
    /\ resp.status = 400
    /\ Len(readings) > 0

\* C3: in every Reading, a present pulse (spo2) is the rounded hrRaw
\* (spo2Raw), and an absent raw value means an absent derived value.
C3_DerivedFromRaw ==
    \A i \in 1..Len(readings) :
        LET r == readings[i]
        IN  /\ r.pulse.some => (r.hr_raw.some /\ NearestOfTenths(r.pulse.v, r.hr_raw.v))
            /\ r.spo2.some => (r.spo2_raw.some /\ NearestOfTenths(r.spo2.v, r.spo2_raw.v))

\* the rows of subject u recorded on civil day d
DayIdx(rs, u, d) ==
    {i \in 1..Len(rs) :
        rs[i].user_id = u /\ rs[i].recorded_at.some /\ DayOf(rs[i].recorded_at.v) = d}

\* the day that was scored holds spo2 96 and 97, pulse 65 and 70, 480 rows
\* of sleep and 30 rows of walking
EndToEndDay ==
    /\ req.op = "score"
    /\ req.target_date.some
    /\ LET idx == DayIdx(readings, req.user_id, req.target_date.v)
           so == {i \in idx : readings[i].spo2.some}
           pu == {i \in idx : readings[i].pulse.some}
       IN  /\ Cardinality(so) = 2
           /\ {readings[i].spo2.v : i \in so} = {96, 97}
           /\ Cardinality(pu) = 2
           /\ {readings[i].pulse.v : i \in pu} = {65, 70}
           /\ Cardinality({i \in idx : ContainsSleep(readings[i].activity)}) = 480
           /\ Cardinality({i \in idx : readings[i].activity = "walk"}) = 30
           /\ Cardinality({i \in idx : ContainsExerciseOrWalk(readings[i].activity)}) = 30

ScoresAre(h, sleep, exercise, spo2, hr, overall) ==
    /\ h.sleep_score = sleep
    /\ h.exercise_score = exercise
    /\ h.spo2_score = spo2
    /\ h.resting_hr_score = hr
    /\ h.overall_score = overall

\* C4 as stated: that day scores sleep 100, exercise 100, spo2 94, resting
\* heart rate 100, overall 98.
C4_EndToEnd ==
    (EndToEndDay /\ resp.op = "score" /\ resp.hs.some)
        => ScoresAre(resp.hs.v, 100, 100, 94, 100, 98)

\* C4: that day scores sleep 100, exercise 100, spo2 92 (the mean 96.5 is
\* truncated to 96), resting heart rate 100, overall 98.
C4_EndToEndTruncatedMean ==
    (EndToEndDay /\ resp.op = "score" /\ resp.hs.some)
        => ScoresAre(resp.hs.v, 100, 100, 92, 100, 98)

C4_DayScored == EndToEndDay /\ resp.op = "score" /\ resp.hs.some

\* C5: spo2Score is non-decreasing over the integers.
C5_Spo2ScoreMonotone ==
    (fnPc = "spo2_to_score" /\ fnArgs[1].some /\ fnArgs[2].some /\ fnArgs[1].v <= fnArgs[2].v)
        => fnRes[1] <= fnRes[2]

C5_AcrossBoundary ==
    /\ fnPc = "spo2_to_score"
    /\ fnArgs = <<Some(89), Some(90)>>
    /\ fnRes[1] < fnRes[2]

\* the formula of spo2Score as the specification states it
Spo2ScoreStated(a) ==
    IF ~a.some THEN 0
    ELSE IF a.v >= 98 THEN 100
    ELSE IF 95 <= a.v /\ a.v < 98 THEN 90 + (a.v - 95) * 2
    ELSE IF 90 <= a.v /\ a.v < 95 THEN (6000 + (a.v - 90) * 725) \div 100
    ELSE IF 30 - (90 - a.v) * 5 > 0 THEN 30 - (90 - a.v) * 5
    ELSE 0

\* C6: spo2Score follows its four stated branches, 0 for an absent input,
\* 25 at 89 and 100 at 98.
C6_Spo2ScoreFormula ==
    fnPc = "spo2_to_score"
        => /\ \A i \in 1..2 : fnRes[i] = Spo2ScoreStated(fnArgs[i])
           /\ \A i \in 1..2 : fnArgs[i] = Some(89) => fnRes[i] = 25
           /\ \A i \in 1..2 : fnArgs[i] = Some(98) => fnRes[i] = 100

C6_AtEightyNineAndNinetyEight ==
    /\ fnPc = "spo2_to_score"
    /\ fnArgs = <<Some(89), Some(98)>>
    /\ fnRes = <<25, 100>>

\* the formula of restingHRScore as the specification states it
RestingHRScoreStated(a) ==
    IF ~a.some THEN 0
    ELSE IF a.v \in 60..80 THEN 100
    ELSE IF a.v \in 50..59 \/ a.v \in 81..90 THEN 70
    ELSE IF a.v \in 45..49 \/ a.v \in 91..100 THEN 50
    ELSE 20

\* C7: restingHRScore follows its stated bands, 0 for an absent input, and is
\* 100 at 70, 70 at 55, 50 at 47, 20 at 30.
C7_RestingHRScoreFormula ==
    fnPc = "resting_hr_score"
        => /\ \A i \in 1..2 : fnRes[i] = RestingHRScoreStated(fnArgs[i])
           /\ \A i \in 1..2 :
                /\ fnArgs[i] = Some(70) => fnRes[i] = 100
                /\ fnArgs[i] = Some(55) => fnRes[i] = 70
                /\ fnArgs[i] = Some(47) => fnRes[i] = 50
                /\ fnArgs[i] = Some(30) => fnRes[i] = 20

C7_AtSixtyAndFortySeven ==
    /\ fnPc = "resting_hr_score"
    /\ fnArgs = <<Some(60), Some(47)>>
    /\ fnRes = <<100, 50>>

\* C8: the HealthScore a computation returns has overall equal to the floor
\* of the weighted sum of its own four sub-scores, within 0..100.
C8_OverallIsFloor ==
    (resp.op = "score" /\ resp.hs.some)
        => LET h == resp.hs.v
           IN  /\ 100 * h.overall_score <= Weighted(h)
               /\ Weighted(h) < 100 * (h.overall_score + 1)
               /\ h.overall_score \in 0..100

C8_FractionalSum ==
    /\ resp.op = "score"
    /\ resp.hs.some
    /\ Weighted(resp.hs.v) % 100 # 0
    /\ resp.hs.v.sleep_score # resp.hs.v.exercise_score

\* C9 as stated: every stored HealthScore has overall equal to the weighted
\* sum rounded to the nearest integer.
C9_OverallIsNearest ==
    \A i \in 1..Len(scores) :
        Abs(100 * scores[i].overall_score - Weighted(scores[i])) <= 50

\* C9: every stored HealthScore has overall equal to the weighted sum with
\* its fraction dropped: never above the sum, less than one below it.
C9_OverallIsTruncated ==
    \A i \in 1..Len(scores) :
        /\ Weighted(scores[i]) - 100 * scores[i].overall_score >= 0
        /\ Weighted(scores[i]) - 100 * scores[i].overall_score < 100

C9_FractionAboveHalf ==
    \E i \in 1..Len(scores) :
        Weighted(scores[i]) - 100 * scores[i].overall_score > 50

\* no row of subject u lies in the window of target_date td at instant t
NoneInWindow(rs, u, td, t) ==
    \A i \in 1..Len(rs) :
        ~ /\ rs[i].user_id = u
          /\ rs[i].recorded_at.some
          /\ IF td.some THEN DayOf(rs[i].recorded_at.v) = td.v
             ELSE t - TicksPerDay <= rs[i].recorded_at.v /\ rs[i].recorded_at.v <= t

\* C10: a computation whose subject has no Reading in the window returns
\* absent and changes no table, whatever other subjects' Readings and
\* Readings outside the window the store holds.
C10_EmptyWindowAbsent ==
    [][(req'.op = "score" /\ NoneInWindow(readings, req'.user_id, req'.target_date, now))
          => /\ ~resp'.hs.some
             /\ scores' = scores
             /\ readings' = readings
             /\ users' = users]_vars

C10_OnlyOthersInWindow ==
    /\ req.op = "score"
    /\ resp.op = "score"
    /\ ~resp.hs.some
    /\ req.target_date.some
    /\ \E i \in 1..Len(readings) :
          /\ readings[i].user_id # req.user_id
          /\ readings[i].recorded_at.some
          /\ DayOf(readings[i].recorded_at.v) = req.target_date.v
    /\ \E i \in 1..Len(readings) :
          /\ readings[i].user_id = req.user_id
          /\ readings[i].recorded_at.some
          /\ DayOf(readings[i].recorded_at.v) # req.target_date.v

\* the number of HealthScores rows of subject u and day d
CountScores(ss, u, d) ==
    Cardinality({i \in 1..Len(ss) : ss[i].user_id = u /\ ss[i].score_date = d})

\* C11: a computation over a non-empty window appends exactly one HealthScore
\* of its subject and leaves every earlier record as it was, so the number of
\* records of that subject and day grows by one with every such computation;
\* no step changes or removes a record.
C11_AppendsOneRecord ==
    [][/\ Len(scores') >= Len(scores)
       /\ SubSeq(scores', 1, Len(scores)) = scores
       /\ (req'.op = "score"
             /\ ~NoneInWindow(readings, req'.user_id, req'.target_date, now))
            => /\ Len(scores') = Len(scores) + 1
               /\ resp'.hs = Some(scores'[Len(scores')])
               /\ LET h == scores'[Len(scores')]
                  IN  /\ h.user_id = req'.user_id
                      /\ req'.target_date.some => h.score_date = req'.target_date.v
                      /\ CountScores(scores', h.user_id, h.score_date)
                            = CountScores(scores, h.user_id, h.score_date) + 1]_vars

C11_TwoRecordsSameDay ==
    /\ Len(scores) = 2
    /\ scores[1] = scores[2]
    /\ req.op = "score"
    /\ resp.hs = Some(scores[2])

\* the subject a live payload names: user_id, else device_id
SubjectOf(payload) ==
    IF payload.user_id.k = "id" THEN SubjectName[payload.user_id.v]
    ELSE SubjectName[payload.device_id.v]

\* the call is admitted, names a subject and meets no store failure
Accepted(r) == Admitted(r) /\ ~LacksIdentity(r.payload) /\ r.db_ok

\* C12: an admitted live call that names a subject and meets no store failure
\* appends exactly one Reading of that subject, appends an identity record
\* of that subject iff the subject had none (every existing identity record
\* stays as it was) and returns the id of the new Reading.
C12_LiveWritesOneReading ==
    [][Accepted(req')
          => /\ Len(readings') = Len(readings) + 1
             /\ SubSeq(readings', 1, Len(readings)) = readings
             /\ readings'[Len(readings')].user_id = SubjectOf(req'.payload)
             /\ resp'.status = 201
             /\ resp'.id = Len(readings')
             /\ IF \E i \in 1..Len(users) : users[i].user_id = SubjectOf(req'.payload)
                THEN users' = users
                ELSE /\ Len(users') = Len(users) + 1
                     /\ SubSeq(users', 1, Len(users)) = users
                     /\ users'[Len(users')].user_id = SubjectOf(req'.payload)]_vars

\* a Reading of subject admin was written and the admin record is as created
C12_ExistingIdentityKept ==
    /\ Accepted(req)
    /\ resp.status = 201
    /\ SubjectOf(req.payload) = "admin"
    /\ readings[resp.id].user_id = "admin"
    /\ users = <<Admin>>

\* the rows the last batch run wrote, paired with the CSV rows they came from
BatchRun == req.op \in {"seed", "import"}
WrittenFor(i) == readings[Len(readings) - Len(req.rows) + i]

\* the date cell is missing, blank, or in none of the formats dd/mm/YYYY,
\* YYYY-MM-DD (strptime %Y-%m-%d, which takes 2024-3-5 too) and ISO-8601
DateUnusable(date) == date.k \in {"none", "empty", "bad"}

\* the time cell is blank, or no time format takes it with the period given
TimeUnusable(time, period) ==
    \/ time.k \in {"none", "blank", "bad"}
    \/ period \in {"AM", "PM", "am", "pm"} /\ ~(1 <= time.h /\ time.h <= 12)
    \/ period \notin {"AM", "PM", "am", "pm"} /\ ~(0 <= time.h /\ time.h <= 23)

\* C13: resolve(date, time, period) is absent exactly when the date is
\* missing, blank or in none of the date formats; otherwise it is a point on
\* that date, at 00:00:00 when the time is blank or fits no time format.
\* Stated of both importers.
C13_ResolveContract ==
    BatchRun =>
        \A i \in 1..Len(req.rows) :
            LET row == req.rows[i]
                rec == WrittenFor(i).recorded_at
            IN  /\ ~rec.some <=> DateUnusable(row.date)
                /\ rec.some =>
                      /\ DayOf(rec.v) = row.date.d
                      /\ TimeUnusable(row.time, row.period) => rec.v = DayStart(row.date.d)

\* C13 for the seed import of the app alone
C13_SeedResolveContract == req.op = "seed" => C13_ResolveContract

\* a stored wall clock value res renders the source value v, whichever zone
\* (UTC, the host's, UTC+5:30) v was read in
Renders(res, v) == 0 <= res - v /\ res - v <= IST

\* the sources of a live payload that yield a value
IsoYields(payload) == payload.recorded_at.k \in {"naive", "aware"}
UnixYields(payload) == payload.timestamp.k = "num"
TripleYields(payload) == payload.csv_date.k \in {"dmy", "ymd", "ymd1", "iso"}

\* the point in time the csv triple of the payload denotes
TripleValue(payload) ==
    DayStart(payload.csv_date.d)
        + (IF payload.csv_time.k \in {"hms", "hm"} /\ payload.csv_period = "PM"
           THEN ((payload.csv_time.h % 12) + 12) * TicksPerHour + payload.csv_time.half
           ELSE 0)

\* a live call was accepted and its Reading written
Written == Accepted(req) /\ resp.status = 201

\* C14: the recordedAt of a live Reading is never absent and comes from the
\* first source that yields a value: recorded_at, else timestamp, else the
\* csv triple, else the current instant.
C14_FirstSourceWins ==
    Written =>
        LET p == req.payload
            res == readings[resp.id].recorded_at
        IN  /\ res.some
            /\ IF IsoYields(p) THEN Renders(res.v, p.recorded_at.v)
               ELSE IF UnixYields(p) THEN Renders(res.v, p.timestamp.v \div 10)
               ELSE IF TripleYields(p) THEN Renders(res.v, TripleValue(p))
               ELSE res.v = now + IST

\* recorded_at does not parse, timestamp and the csv triple both do
C14_FellThroughToUnix ==
    /\ Written
    /\ req.payload.recorded_at.k = "bad"
    /\ UnixYields(req.payload)
    /\ TripleYields(req.payload)
    /\ Renders(readings[resp.id].recorded_at.v, T2)
    /\ ~Renders(readings[resp.id].recorded_at.v, TripleValue(req.payload))

\* the number a JSON value parses to, in tenths; absent when it is missing,
\* null or no number
NumberOf(x) ==
    CASE x.k \in {"num", "str"} -> Some(x.v)
      [] x.k = "bool" -> Some(10 * x.v)
      [] OTHER -> None

\* heart_rate, unless its flag is present and falsy
FlagOk(flag) == flag.k \in {"absent", "null"} \/ Truthy(flag)

\* the first of hr_raw, pulse, heart_rate that parses as a number
FirstPulseAlias(payload) ==
    IF NumberOf(payload.hr_raw).some THEN NumberOf(payload.hr_raw)
    ELSE IF NumberOf(payload.pulse).some THEN NumberOf(payload.pulse)
    ELSE IF FlagOk(payload.heart_rate_valid) THEN NumberOf(payload.heart_rate)
    ELSE None

\* C15: the raw pulse of a live Reading is the number of the first of the
\* aliases hr_raw, pulse, heart_rate (heart_rate unless flagged invalid) that
\* is present, non-null and parses, an unparsable alias counting as absent;
\* {heart_rate: 72} gives pulse 72 and {hr_raw: 71.6} gives pulse 72, raw 71.6.
C15_FirstParsableAlias ==
    Written =>
        LET p == req.payload
            rd == readings[resp.id]
        IN  /\ rd.hr_raw = FirstPulseAlias(p)
            /\ (p.heart_rate = JNum(720) /\ p.heart_rate_valid = JAbsent
                  /\ p.hr_raw = JAbsent /\ p.pulse = JAbsent)
                 => rd.pulse = Some(72)
            /\ p.hr_raw = JNum(716) => (rd.pulse = Some(72) /\ rd.hr_raw = Some(716))

\* C15 without the payloads whose hr_raw is present and does not parse
C15_UnlessHrRawUnparsable ==
    (Written /\ req.payload.hr_raw.k # "bad") => C15_FirstParsableAlias

\* the first non-empty of the cells person_id, user_id, person
FirstIdentityCell(row) ==
    IF row.person_id # "" THEN row.person_id
    ELSE IF row.user_id # "" THEN row.user_id
    ELSE IF row.person # "" THEN row.person
    ELSE "unknown"

\* C16: every row a batch run writes carries as subject the first non-empty
\* of person_id, user_id, person of its CSV row, and "unknown" when all three
\* are empty.  Stated of both importers.
C16_BatchSubject ==
    BatchRun =>
        \A i \in 1..Len(req.rows) : WrittenFor(i).user_id = FirstIdentityCell(req.rows[i])

\* C16 for the seed import of the app alone
C16_SeedSubject == req.op = "seed" => C16_BatchSubject

\* the Readings of the window the last computation looked at
ScoredIdx ==
    {i \in 1..Len(readings) :
        /\ readings[i].user_id = req.user_id
        /\ readings[i].recorded_at.some
        /\ IF req.target_date.some
           THEN DayOf(readings[i].recorded_at.v) = req.target_date.v
           ELSE now - TicksPerDay <= readings[i].recorded_at.v /\ readings[i].recorded_at.v <= now}

\* a computation returned a HealthScore
Scored == req.op = "score" /\ resp.op = "score" /\ resp.hs.some

\* m: the Readings of the window whose activity contains exercise or walk
ExerciseCount ==
    Cardinality({i \in ScoredIdx : readings[i].activity \in {"walk", "Exercise", "sleepwalking"}})

\* s: the Readings of the window whose activity contains sleep
SleepCount ==
    Cardinality({i \in ScoredIdx : readings[i].activity \in {"Deep Sleep", "sleepwalking"}})

\* C17 as stated: exerciseScore is 100 for m >= 30 and m/30*100 rounded to
\* the nearest integer below that; 67 for m = 20 and 17 for m = 5.
C17_ExerciseNearest ==
    Scored =>
        LET m == ExerciseCount
            x == resp.hs.v.exercise_score
        IN  /\ m >= 30 => x = 100
            /\ m < 30 => Abs(30 * x - 100 * m) <= 15
            /\ m = 20 => x = 67
            /\ m = 5 => x = 17

\* C17: exerciseScore is 100 for m >= 30 and m/30*100 with its fraction
\* dropped below that; 66 for m = 20 and 16 for m = 5.
C17_ExerciseTruncated ==
    Scored =>
        LET m == ExerciseCount
            x == resp.hs.v.exercise_score
        IN  /\ m >= 30 => x = 100
            /\ m < 30 => (30 * x <= 100 * m /\ 100 * m < 30 * (x + 1))
            /\ m = 20 => x = 66
            /\ m = 5 => x = 16

C17_TwentyWalks ==
    /\ Scored
    /\ ExerciseCount = 20
    /\ resp.hs.v.exercise_score = 66

\* C18: with s the number of Readings of the window whose activity contains
\* sleep, sleepScore is 100 for 420 <= s <= 540, 80 for 360 <= s < 420, 60 for
\* 300 <= s < 360, 30 for s < 300 (s = 0 included) and 80 for s > 540.
C18_SleepScoreBands ==
    Scored =>
        LET n == SleepCount
            x == resp.hs.v.sleep_score
        IN  /\ (420 <= n /\ n <= 540) => x = 100
            /\ (360 <= n /\ n < 420) => x = 80
            /\ (300 <= n /\ n < 360) => x = 60
            /\ n < 300 => x = 30
            /\ n > 540 => x = 80

C18_OverNineHours ==
    /\ Scored
    /\ SleepCount = 541
    /\ resp.hs.v.sleep_score = 80
    /\ \E i \in 1..Len(scores) : scores[i].sleep_score = 80

\* the payload carries a number in spo2 and no spo2_raw field
PlainSpo2(payload) == payload.spo2.k = "num" /\ payload.spo2_raw.k = "absent"

\* C19: a live payload with a numeric spo2, a spo2_valid flag that is present
\* and falsy and no spo2_raw is written with spo2 and spo2Raw absent; with
\* spo2_valid absent the value is accepted.
C19_FlaggedSpo2Dropped ==
    (Written /\ PlainSpo2(req.payload)) =>
        LET p == req.payload
            rd == readings[resp.id]
        IN  /\ (p.spo2_valid.k \in {"bool", "num"} /\ ~Truthy(p.spo2_valid))
                 => (~rd.spo2.some /\ ~rd.spo2_raw.some)
            /\ p.spo2_valid.k = "absent"
                 => (rd.spo2_raw = Some(p.spo2.v) /\ rd.spo2.some
                     /\ NearestOfTenths(rd.spo2.v, p.spo2.v))

\* the second half of C19 alone: without a flag the value is accepted
C19_UnflaggedSpo2Accepted ==
    (Written /\ PlainSpo2(req.payload) /\ req.payload.spo2_valid.k = "absent") =>
        C19_FlaggedSpo2Dropped

\* the time of day a time cell and a period cell denote, midnight when unusable
StatedTimeOfDay(time, period) ==
    IF TimeUnusable(time, period) THEN 0
    ELSE IF period \in {"PM", "pm"} THEN ((time.h % 12) + 12) * TicksPerHour + time.half
    ELSE IF period \in {"AM", "am"} THEN (time.h % 12) * TicksPerHour + time.half
    ELSE time.h * TicksPerHour + time.half

\* C20: a zone-less source (a naive recorded_at string, a csv triple) is
\* stored with its own wall clock value, read as UTC+5:30, and a unix
\* timestamp is stored as its UTC instant moved to UTC+5:30, on every host.
C20_ZoneLessReadAsIST ==
    /\ Written =>
          LET p == req.payload
              res == readings[resp.id].recorded_at
          IN  /\ p.recorded_at.k = "naive" => res = Some(p.recorded_at.v)
              /\ (~IsoYields(p) /\ UnixYields(p)) => res = Some((p.timestamp.v \div 10) + IST)
              /\ (~IsoYields(p) /\ ~UnixYields(p) /\ TripleYields(p))
                   => res = Some(DayStart(p.csv_date.d)
                                  + StatedTimeOfDay(p.csv_time, p.csv_period))
    /\ BatchRun =>
          \A i \in 1..Len(req.rows) :
              WrittenFor(i).recorded_at.some =>
                  WrittenFor(i).recorded_at.v
                      = DayStart(req.rows[i].date.d)
                          + StatedTimeOfDay(req.rows[i].time, req.rows[i].period)

\* C20 for the batch importers alone
C20_BatchReadAsIST == BatchRun => C20_ZoneLessReadAsIST

(***************************************************************************)
(* The streaming model: one batch run over a long file, one row per step.  *)
(***************************************************************************)
\* the rows of a long file: usable rows of two subjects mixed with rows whose
\* date, time or metric cells cannot be parsed
StreamRow(i) ==
    CASE i % 4 = 1 -> CsvRow("u1", "", "", DateStr("dmy", 2), TimeStr("hms", 5, 1), "AM",
                             "rest", JStr(716), JStr(965))
      [] i % 4 = 2 -> CsvRow("", "u2", "", DateStr("bad", 0), TimeStr("hm", 13, 0), "",
                             "walk", JBad, JStr(890))
      [] i % 4 = 3 -> CsvRow("", "", "", DateStr("ymd", 2), TimeStr("bad", 0, 0), "night",
                             "sleep", JEmpty, JBad)
      [] OTHER -> CsvRow("u1", "", "", NoDate, NoTime, "", "rest", JStr(725), JAbsent)

\* a row whose hr cell is "nan"
NanRow ==
    CsvRow("u1", "", "", DateStr("dmy", 2), TimeStr("hms", 5, 1), "AM", "rest",
           JNan, JStr(965))

\* a file of n rows; row nanAt, if there is one, is the "nan" row
StreamFile(n, nanAt) == [i \in 1..n |-> IF i = nanAt THEN NanRow ELSE StreamRow(i)]

StreamSizes ==
    {0, 1, CommitEvery - 1, CommitEvery, CommitEvery + 1, 2 * CommitEvery,
     2 * CommitEvery + 1}

StreamFiles ==
    {StreamFile(n, 0) : n \in StreamSizes}
        \cup {StreamFile(3, 2), StreamFile(CommitEvery + 1, CommitEvery + 1),
              StreamFile(2 * CommitEvery, CommitEvery + 2)}

NextStream ==
    \/ \E f \in StreamFiles : run.pc = "idle" /\ SeedStart(f)
    \/ SeedRow
    \/ SeedEnd
    \/ \E f \in StreamFiles : run.pc = "idle" /\ ImportStart(f)
    \/ ImportRow
    \/ ImportEnd

SpecStream == Init /\ [][NextStream]_vars

\* the Reading the run makes of row i
RunReading(i) ==
    IF run.op = "seed" THEN SeedReading(run.rows[i]) ELSE ImportReading(run.rows[i])

\* the run's session kept to the commit rhythm so far: the store holds the
\* rows up to the last multiple of CommitEvery, the session the rest, in row
\* order
RhythmKept ==
    /\ Len(run.pendR) <= CommitEvery
    /\ run.pc = "rows" =>
          /\ Len(readings) = CommitEvery * (run.pos \div CommitEvery)
          /\ Len(run.pendR) = run.pos % CommitEvery
    /\ \A i \in 1..Len(readings) : readings[i] = RunReading(i)
    /\ \A i \in 1..Len(run.pendR) : run.pendR[i] = RunReading(Len(readings) + i)

\* C21: a batch run over N rows commits after every 500th row and at the
\* end, never holds more than 500 uncommitted rows, and when it has ended
\* the store holds exactly the N Readings of the rows in row order with
\* nothing left uncommitted, whatever the rows' date, time and metric cells.
C21_BatchWritesAllRows ==
    run.op # "none" =>
        /\ RhythmKept
        /\ run.pc \in {"done", "aborted"} =>
              /\ Len(readings) = Len(run.rows)
              /\ run.pendR = <<>>

\* C21 for the files in which no metric cell is "nan" or "inf"
C21_UnlessRoundRaises ==
    (run.op # "none" /\ \A i \in 1..Len(run.rows) : ~RowRaises(run.rows[i]))
        => C21_BatchWritesAllRows

\* a run over more than 500 rows has ended
C21_LongRunEnded == run.pc = "done" /\ Len(run.rows) > CommitEvery

(***************************************************************************)
(* The identity model: batch runs, one row per step, and live calls, one   *)
(* after the other, on a store that starts with the admin record only.     *)
(***************************************************************************)
SubjectRows ==
    {CsvRow("u1", "", "", DateStr("dmy", 2), TimeStr("hms", 5, 1), "AM", "rest",
            JStr(716), JStr(965)),
     CsvRow("", "u2", "", DateStr("dmy", 2), TimeStr("hms", 5, 1), "AM", "rest",
            JStr(716), JStr(965)),
     CsvRow("", "", "", DateStr("dmy", 2), TimeStr("hms", 5, 1), "AM", "rest",
            JStr(716), JStr(965)),
     CsvRow("u3", "", "", DateStr("dmy", 2), TimeStr("hms", 5, 1), "AM", "rest",
            JNan, JStr(965))}

SubjectFiles ==
    {<<r>> : r \in SubjectRows} \cup {<<r1, r2>> : r1 \in SubjectRows, r2 \in SubjectRows}

SubjectRequests ==
    {SensorRequest(TRUE, TRUE, TRUE, [BasePayload EXCEPT !.user_id = JId(n), !.heart_rate = JNum(720)]) :
        n \in 1..3}

NextIdentity ==
    \/ \E f \in SubjectFiles : SeedStart(f)
    \/ SeedRow
    \/ SeedEnd
    \/ \E f \in SubjectFiles : Len(readings) + Len(f) <= MaxStored /\ ImportStart(f)
    \/ ImportRow
    \/ ImportEnd
    \/ \E r \in SubjectRequests : run.pc # "rows" /\ ApiSensorDataCapped(r, MaxStored)

SpecIdentity == Init /\ [][NextIdentity]_vars

\* the number of identity records of a subject, pending ones included
IdentityCount(user_id) ==
    Cardinality({j \in 1..Len(users) : users[j].user_id = user_id})
        + Cardinality({j \in 1..Len(run.pendU) : run.pendU[j].user_id = user_id})

\* C22: every subject of a stored Reading has exactly one identity record,
\* every subject of a Reading a running batch has added and not committed
\* has exactly one, stored or pending, and no subject ever has two.
C22_OneIdentityPerSubject ==
    /\ \A i \in 1..Len(readings) :
          Cardinality({j \in 1..Len(users) : users[j].user_id = readings[i].user_id}) = 1
    /\ \A i \in 1..Len(run.pendR) : IdentityCount(run.pendR[i].user_id) = 1
    /\ \A j \in 1..Len(users) : IdentityCount(users[j].user_id) = 1

\* a new subject appeared twice in the rows a batch has not committed yet
C22_TwiceInPendingBatch ==
    /\ Len(run.pendR) = 2
    /\ run.pendR[1].user_id = run.pendR[2].user_id
    /\ ~UserExists(users, run.pendR[1].user_id)

(***************************************************************************)
(* The race model: live calls served by concurrent threads.  A call first  *)
(* works on its payload alone, then adds its Reading to its session and    *)
(* queries user_auth, then commits.  The query flushes the session first:  *)
(* the INSERT of the Reading takes the write lock of the sqlite database   *)
(* (app_v0.py line 61), which the call keeps until it commits or rolls     *)
(* back; a second writer waits for it.                                     *)
(***************************************************************************)
\* a call in flight: pc is built (payload resolved, nothing stored), flushed
\* (Reading inserted, existence check done) or done; fresh says the subject
\* had no identity record when the call arrived, during is the set of calls
\* that were in flight at that moment; p is the Reading, <<>> when the call
\* was turned away before it built one
Call(r, pc, p, status, fresh, during) ==
    [r |-> r, pc |-> pc, p |-> p, found |-> FALSE, status |-> status, id |-> 0,
     fresh |-> fresh, during |-> during]

InFlight(cs) == {d \in 1..Len(cs) : cs[d].pc # "done"}

\* variant: the existence check runs before anything is written, so that no
\* lock is held while it runs
WriteLockFree_CheckFirst(cs, c) == TRUE

\* no other call holds the write lock
WriteLockFree(cs, c) == \A d \in 1..Len(cs) : d # c => cs[d].pc # "flushed"

\* api_sensor_data up to the construction of the PulseSpO2 object
LiveReceive(r) ==
    /\ Len(calls) < MaxCalls
    /\ \E out \in {SensorOutcome([r EXCEPT !.db_ok = TRUE], <<>>, <<>>, now, hostOffset)} :
          IF out.resp.status # 201
          THEN /\ calls' = Append(calls, Call(r, "done", <<>>, out.resp.status, FALSE, InFlight(calls)))
               /\ resp' = out.resp
          ELSE /\ calls' = Append(calls, Call(r, "built", out.readings[1], 0,
                                              ~UserExists(users, out.readings[1].user_id),
                                              InFlight(calls)))
               /\ resp' = NoResponse
    /\ req' = r
    /\ UNCHANGED <<readings, users, scores, now, hostOffset, fnArgs, fnRes, fnPc, run>>

\* db.session.add(p) and the query on user_auth
LiveFlush(c) ==
    /\ c \in 1..Len(calls) /\ calls[c].pc = "built"
    /\ IF ~calls[c].r.db_ok
       THEN /\ calls' = [calls EXCEPT ![c].pc = "done", ![c].status = 500]
            /\ resp' = Response("sensor", 500, "db error", 0, None)
       ELSE /\ WriteLockFree(calls, c)
            /\ calls' = [calls EXCEPT ![c].pc = "flushed",
                                      ![c].found = UserExists(users, calls[c].p.user_id)]
            /\ UNCHANGED resp
    /\ UNCHANGED <<readings, users, scores, req, now, hostOffset, fnArgs, fnRes, fnPc, run>>

\* the rest of the try block: the identity record if none was found, the
\* commit, and the rollback when the unique user_id is already there
LiveCommit(c) ==
    /\ c \in 1..Len(calls) /\ calls[c].pc = "flushed"
    /\ IF ~calls[c].found /\ UserExists(users, calls[c].p.user_id)
       THEN /\ calls' = [calls EXCEPT ![c].pc = "done", ![c].status = 500]
            /\ resp' = Response("sensor", 500, "db error", 0, None)
            /\ UNCHANGED <<readings, users>>
       ELSE /\ readings' = Append(readings, calls[c].p)
            /\ users' = IF calls[c].found THEN users
                        ELSE Append(users, LiveUser(calls[c].p.user_id))
            /\ calls' = [calls EXCEPT ![c].pc = "done", ![c].status = 201,
                                      ![c].id = Len(readings) + 1]
            /\ resp' = Response("sensor", 201, "", Len(readings) + 1, None)
    /\ UNCHANGED <<scores, req, now, hostOffset, fnArgs, fnRes, fnPc, run>>

RaceRequests ==
    SubjectRequests
        \cup {SensorRequest(FALSE, TRUE, TRUE, BasePayload),
              SensorRequest(TRUE, TRUE, FALSE, BasePayload),
              SensorRequest(TRUE, TRUE, TRUE, [BasePayload EXCEPT !.user_id = JAbsent])}

NextRace ==
    \/ \E r \in RaceRequests : LiveReceive(r)
    \/ \E c \in 1..MaxCalls : LiveFlush(c)
    \/ \E c \in 1..MaxCalls : LiveCommit(c)

SpecRace == Init /\ [][NextRace]_vars

\* calls c and d, both finished, named the same subject, which had no
\* identity record when c arrived; d arrived while c was in flight, and
\* neither met a store failure
Raced(c, d) ==
    /\ c # d
    /\ calls[c].pc = "done" /\ calls[d].pc = "done"
    /\ Accepted(calls[c].r) /\ Accepted(calls[d].r)
    /\ calls[c].fresh
    /\ c \in calls[d].during
    /\ SubjectOf(calls[c].r.payload) = SubjectOf(calls[d].r.payload)

\* C23: two live calls for the same previously unknown subject that are in
\* flight together both succeed and both Readings are stored, with one
\* identity record for the subject: no Reading is lost to the race.
C23_NoReadingLostToRace ==
    \A c \in 1..Len(calls) : \A d \in 1..Len(calls) :
        Raced(c, d) =>
            /\ calls[c].status = 201 /\ calls[d].status = 201
            /\ calls[c].id # calls[d].id
            /\ readings[calls[c].id] = calls[c].p
            /\ readings[calls[d].id] = calls[d].p
            /\ Cardinality({j \in 1..Len(users) :
                               users[j].user_id = SubjectOf(calls[c].r.payload)}) = 1

\* two such calls have finished; the first created the identity record and
\* the second found it
C23_SecondFoundProvisioned ==
    \E c \in 1..Len(calls) : \E d \in 1..Len(calls) :
        Raced(c, d) /\ ~calls[c].found /\ calls[d].found

\* C23, the interleaving itself: no two calls are between their existence
\* check and their commit at the same time
C23_ChecksNeverOverlap ==
    Cardinality({c \in 1..Len(calls) : calls[c].pc = "flushed"}) <= 1

(***************************************************************************)
(* The window model: live calls that carry no time, scoring without a day, *)
(* and a clock that advances.                                              *)
(***************************************************************************)
\* half an hour passes
Tick ==
    /\ now < Now0 + MaxTicks
    /\ now' = now + 1
    /\ UNCHANGED <<readings, users, scores, req, resp, hostOffset, fnArgs, fnRes, fnPc, run, calls>>

\* payloads without recorded_at, timestamp and csv date, and one with a
\* zone-aware recorded_at
WindowRequests ==
    {SensorRequest(TRUE, TRUE, TRUE, [BasePayload EXCEPT !.user_id = JId(n), !.heart_rate = h, !.spo2 = o]) :
        n \in 1..2, h \in {JNum(720), JAbsent}, o \in {JNum(970), JAbsent}}
        \cup {SensorRequest(TRUE, TRUE, TRUE,
                            [BasePayload EXCEPT !.recorded_at = RAware(Now0, 0), !.heart_rate = JNum(720)])}

NextWindow ==
    \/ \E r \in WindowRequests : ApiSensorData(r)
    \/ \E u \in {"u1", "u2"} : ComputeDailyScore(u, None)
    \/ Tick

SpecWindow == Init /\ [][NextWindow]_vars

\* the payload names no time of its own
DefaultsToNow(payload) ==
    /\ payload.recorded_at.k = "absent"
    /\ payload.timestamp.k = "absent"
    /\ payload.csv_date.k = "none"

\* C24: a score computed without a day right after a live call that stored
\* a Reading with the current instant as recordedAt finds that Reading in
\* its trailing 24 hours and returns a HealthScore.
C24_DefaultNowInWindow ==
    [][(/\ Written /\ DefaultsToNow(req.payload)
        /\ req'.op = "score"
        /\ req'.user_id = SubjectOf(req.payload)
        /\ ~req'.target_date.some)
           => resp'.hs.some]_vars

\* C24 as a condition on the store: a Reading that took the current instant
\* lies in the trailing 24 hours of the clock the score reads
C24_StoredInsideWindow ==
    (Written /\ DefaultsToNow(req.payload)) =>
        InWindow(readings[resp.id], SubjectOf(req.payload),
                 WindowStart(None, now), WindowEnd(None, now))

\* such a Reading is found once the clock has passed its stored wall time
C24_FoundAfterOffset ==
    [][(/\ req.op = "sensor" /\ resp.status = 201 /\ DefaultsToNow(req.payload)
        /\ readings[resp.id].recorded_at.v <= now
        /\ req'.op = "score" /\ req'.user_id = SubjectOf(req.payload))
           => resp'.hs.some]_vars

(***************************************************************************)
(* The parsing model: live calls whose fields are wrong-typed, not         *)
(* numeric or malformed.                                                   *)
(***************************************************************************)
MalformedPayloads ==
    {[BasePayload EXCEPT !.recorded_at = a, !.timestamp = b, !.csv_date = c,
                         !.csv_time = d, !.csv_period = "night",
                         !.hr_raw = e, !.heart_rate = e, !.heart_rate_valid = f,
                         !.spo2_raw = e, !.spo2 = g, !.spo2_valid = f] :
        a \in {RAbsent, RBad},
        b \in {JAbsent, JBad},
        c \in {NoDate, DateStr("bad", 0), DateStr("dmy", 1), DateStr("array", 0)},
        d \in {NoTime, TimeStr("bad", 0, 0), TimeStr("nonstr", 0, 0), TimeStr("array", 0, 0)},
        e \in {JAbsent, JBad},
        f \in {JBad},
        g \in {JBad, JStr(975)}}

NextParse ==
    \E p \in MalformedPayloads : ApiSensorData(SensorRequest(TRUE, TRUE, TRUE, p))

SpecParse == Init /\ [][NextParse]_vars

\* the Reading a served call stored is the subject's, with every metric
\* either absent or the number the payload gave and a recordedAt
ServedWithDefaults ==
    /\ resp.status = 201
    /\ resp.id \in 1..Len(readings)
    /\ readings[resp.id].user_id = SubjectOf(req.payload)
    /\ readings[resp.id].recorded_at.some
    /\ ~readings[resp.id].hr_raw.some
    /\ ~readings[resp.id].pulse.some
    /\ readings[resp.id].spo2_raw = PyFloat(req.payload.spo2)

\* C25: an admitted live call that names a subject and meets no store
\* failure writes one Reading whatever the values of its time and metric
\* fields and flags are; unparsable parts are absent or defaulted.
C25_NeverFailsOnField ==
    (req.op = "sensor" /\ Accepted(req)) => ServedWithDefaults

\* C25 for the payloads whose csv_date and csv_time are strings, numbers or
\* missing
C25_UnlessUnbindable ==
    (req.op = "sensor" /\ Accepted(req) /\ Bindable(req.payload)) => ServedWithDefaults

====
